---- MODULE Spec2Model ----
(***************************************************************************)
(* mongofluxd: tails a MongoDB oplog (through gtm) and writes selected     *)
(* document fields as points to InfluxDB.  The model follows               *)
(* src/mongofluxd.go: the filter chain, the projection of one op into a    *)
(* point (addPoint), the per-worker batch map and its flush (writeBatch),  *)
(* the resume checkpoint (saveTs / SaveTimestamp), the start timestamp     *)
(* (the `after` generator) and the worker / supervisor goroutines of main. *)
(***************************************************************************)
EXTENDS Integers, Sequences, FiniteSets, TLC

VARIABLES
    cfg,        \* configOptions: the fields the modelled code reads
    source,     \* the oplog of this run: the ops the upstream reader may meet
                \* (ops) and how many of them it handles (n)
    opC,        \* gtmCtx.OpC: ops delivered and not yet consumed
    errC,       \* gtmCtx.ErrC: number of errors queued
    stopC,      \* stopC (capacity 1): number of stop messages queued
    shutdownC,  \* shutdownC (capacity InfluxClients): signals queued
    wg,         \* sync.WaitGroup counter
    exitStatus, \* main's exitStatus variable
    mainPc,     \* position of main after the workers are launched
    sent,       \* shutdown signals main has sent so far
    stoppers,   \* the goroutines that may still publish to stopC
    pc,         \* pc[w]: position of worker goroutine w
    ctx,        \* ctx[w]: the InfluxCtx of worker w (m, dbs, lastTs)
    store,      \* the resume record in mongofluxd.resume: a timestamp or NoDoc
    sink,       \* history: sink[w], the client.Write calls of worker w, in order
    saves,      \* history: saves[w], the SaveTimestamp calls of worker w, in order
    batched,    \* history: batched[w], the ops whose point worker w appended to a batch
    errs,       \* history: a flush, checkpoint or projection error occurred in a worker
    produced,   \* number of ops the upstream reader has handled
    fails,      \* number of injected failures (sink, query, checkpoint, upstream)
    start       \* gtm.Start: the oplog's tail (LastOpTimestamp) and, once the
                \* reader has evaluated options.After, the start timestamp

vars == <<cfg, source, opC, errC, stopC, shutdownC, wg, exitStatus, mainPc, sent,
          stoppers, pc, ctx, store, sink, saves, batched, errs, produced, fails, start>>

-----------------------------------------------------------------------------
(* Bounds of the model *)

\* number of ops the upstream reader handles in a run with one worker
MaxOps == 3
\* number of ops the upstream reader handles in a run with NClients workers
MaxPipelineOps == 2
\* number of failures injected in one run
MaxFails == 1
\* number of writer goroutines (config.InfluxClients) in the pipeline runs
NClients == 2
\* capacity of gtmCtx.ErrC
ErrCap == 1
\* capacity of gtmCtx.OpC (GtmSettings.ChannelSize) in the runs with NClients workers
OpCap == 1
\* config.InfluxBufferSize in the pipeline runs
BufferSize == 2

-----------------------------------------------------------------------------
(* Strings that regular expressions look into are sequences of characters *)

sMongofluxd == <<"m","o","n","g","o","f","l","u","x","d">>
sWeather == <<"w","x">>
sCity == <<"c","i","t","y">>
sTown == <<"t","o","w","n">>
sResume == <<"r","e","s","u","m","e">>
sChunks == <<"c","h","u","n","k","s">>
sSystem == <<"s","y","s","t","e","m">>
sFs == <<"f","s">>
sDot == <<".">>

\* const Name = "mongofluxd"
Name == sMongofluxd

HasAt(s, i, lit) ==
    /\ i >= 1
    /\ i + Len(lit) - 1 <= Len(s)
    /\ SubSeq(s, i, i + Len(lit) - 1) = lit

\* regexp.MustCompile("\\.chunks$").MatchString(s)
chunksRegex(s) == HasAt(s, Len(s) - Len(sChunks), sDot \o sChunks)

\* regexp.MustCompile("system\\..+$").MatchString(s): unanchored on the left,
\* "system." followed by at least one character up to the end
systemsRegex(s) ==
    \E i \in 1..Len(s) :
        /\ HasAt(s, i, sSystem \o sDot)
        /\ i + Len(sSystem) + 1 <= Len(s)

\* A configured namespace regex: a literal, optionally anchored with ^ .
\* The empty literal unanchored stands for the unset option "".
NoRegex == [anchored |-> FALSE, lit |-> <<>>]
MatchString(re, s) ==
    IF re.anchored
    THEN HasAt(s, 1, re.lit)
    ELSE \E i \in 1..(Len(s) + 1) : HasAt(s, i, re.lit)

\* gtm Op.ParseNamespace: strings.SplitN(Namespace, ".", 2)
FirstDot(s) ==
    IF \E i \in 1..Len(s) : s[i] = "."
    THEN CHOOSE i \in 1..Len(s) : s[i] = "." /\ \A j \in 1..(i - 1) : s[j] # "."
    ELSE 0
GetDatabase(op) ==
    IF FirstDot(op.Namespace) = 0
    THEN op.Namespace
    ELSE SubSeq(op.Namespace, 1, FirstDot(op.Namespace) - 1)
GetCollection(op) ==
    IF FirstDot(op.Namespace) = 0
    THEN <<>>
    ELSE SubSeq(op.Namespace, FirstDot(op.Namespace) + 1, Len(op.Namespace))

-----------------------------------------------------------------------------
(* The filter chain *)

\* gtm Op.IsInsert / IsUpdate: Operation == "i" / "u"
IsInsertOrUpdate(op) == op.Operation = "i" \/ op.Operation = "u"
NotMongoFlux(op) == GetDatabase(op) # Name
NotChunks(op) == ~chunksRegex(GetCollection(op))
NotSystem(op) == ~systemsRegex(GetCollection(op))
FilterWithRegex(regex, op) == MatchString(regex, op.Namespace)
FilterInverseWithRegex(regex, op) == ~MatchString(regex, op.Namespace)

\* a changed filterChain: NotMongoFlux left out
filterChainNoSelf(config) ==
    <<"IsInsertOrUpdate", "NotSystem", "NotChunks">>
    \o (IF config.NsRegex # NoRegex THEN <<"FilterWithRegex">> ELSE <<>>)
    \o (IF config.NsExcludeRegex # NoRegex THEN <<"FilterInverseWithRegex">> ELSE <<>>)

\* main: filterChain, in the order the code appends the filters; an entry is
\* the name of a filter
filterChain(config) ==
    <<"NotMongoFlux", "IsInsertOrUpdate", "NotSystem", "NotChunks">>
    \o (IF config.NsRegex # NoRegex THEN <<"FilterWithRegex">> ELSE <<>>)
    \o (IF config.NsExcludeRegex # NoRegex THEN <<"FilterInverseWithRegex">> ELSE <<>>)

ApplyFilter(f, config, op) ==
    CASE f = "NotMongoFlux" -> NotMongoFlux(op)
      [] f = "IsInsertOrUpdate" -> IsInsertOrUpdate(op)
      [] f = "NotSystem" -> NotSystem(op)
      [] f = "NotChunks" -> NotChunks(op)
      [] f = "FilterWithRegex" -> FilterWithRegex(config.NsRegex, op)
      [] f = "FilterInverseWithRegex" -> FilterInverseWithRegex(config.NsExcludeRegex, op)

\* gtm.ChainOpFilters: the op passes when every filter of the chain accepts it
ChainOpFilters(chain, config, op) ==
    \A i \in 1..Len(chain) : ApplyFilter(chain[i], config, op)

filter(config, op) == ChainOpFilters(filterChain(config), config, op)

-----------------------------------------------------------------------------
(* Values of a document.  A value is [t |-> Go type, v |-> payload]; the   *)
(* payload of a nested document (gtm.OpLogEntry) is a document again.      *)

\* bson.MongoTimestamp: 64 bits, seconds in the high 32 and an ordinal in the low 32
MkTs(sec, ord) == [sec |-> sec, ord |-> ord]
Ts0 == MkTs(0, 0)
TsLess(a, b) == a.sec < b.sec \/ (a.sec = b.sec /\ a.ord < b.ord)
TsLeq(a, b) == a = b \/ TsLess(a, b)

\* time.Time: an instant (Unix seconds) and a location
MkTime(unix, loc) == [unix |-> unix, loc |-> loc]
UTC(t) == [t EXCEPT !.loc = "UTC"]

\* time.Unix(int64(ts>>32), 0).UTC()
TimestampTime(ts) == UTC(MkTime(ts.sec, "Local"))

\* a changed isfieldtype: no case for string
isfieldtypeNoString(v) == v.t \in {"int64", "float64", "bool"}

istagtype(v) == v.t = "string"
isfieldtype(v) == v.t \in {"string", "int64", "float64", "bool"}

\* The function whose graph is the set of <<key, value>> pairs kv
MapOf(kv) == [k \in {p[1] : p \in kv} |-> (CHOOSE p \in kv : p[1] = k)[2]]
Pairs(m) == {<<k, m[k]>> : k \in DOMAIN m}

\* flatmap, as the set of <<key, value>> pairs of the map it returns
RECURSIVE flatpairs(_, _)
flatpairs(prefix, m) ==
    UNION {
        IF m[k].t = "map"
        THEN {<<prefix \o k \o "." \o p[1], p[2]>> : p \in flatpairs("", m[k].v)}
        ELSE IF isfieldtype(m[k]) THEN {<<prefix \o k, m[k]>>} ELSE {}
        : k \in DOMAIN m}
flatmap(prefix, m) == MapOf(flatpairs(prefix, m))

-----------------------------------------------------------------------------
(* The start timestamp: options.After as main sets it, and what gtm.Start  *)
(* makes of it.  stored is the ts of the resume record (NoDoc: there is no *)
(* record), tail is gtm.LastOpTimestamp.                                   *)

NoDoc == MkTs(-1, 0)

\* the generator main assigns to `after` when config.Resume is set
afterResume(config, stored, tail) ==
    IF config.Replay THEN Ts0
    ELSE IF config.ResumeFromTimestamp # Ts0 THEN config.ResumeFromTimestamp
    ELSE IF stored # NoDoc THEN stored
    ELSE tail

\* a changed `after`: the resume generator also when only
\* resume-from-timestamp is set
afterAlways(config) ==
    IF config.Resume \/ config.ResumeFromTimestamp # Ts0 THEN "resume"
    ELSE IF config.Replay THEN "zero"
    ELSE "nil"

\* which generator main assigns to `after`
after(config) ==
    IF config.Resume THEN "resume"
    ELSE IF config.Replay THEN "zero"
    ELSE "nil"

\* the timestamp the reader starts from: gtm calls options.After, and
\* LastOpTimestamp when options.After is nil
StartTimestamp(config, stored, tail) ==
    CASE after(config) = "resume" -> afterResume(config, stored, tail)
      [] after(config) = "zero" -> Ts0
      [] after(config) = "nil" -> tail

-----------------------------------------------------------------------------
(* Measurements *)

\* setupMeasurements: the loop over config.Measurement from position i on,
\* with the measures registered so far
RECURSIVE setupLoop(_, _, _)
setupLoop(mss, i, measures) ==
    IF i > Len(mss)
    THEN [err |-> "", measures |-> measures]
    ELSE LET ms == mss[i]
             im == [ns |-> ms.Namespace,
                    timefield |-> ms.Timefield,
                    retention |-> ms.Retention,
                    precision |-> IF ms.Precision = "" THEN "s" ELSE ms.Precision,
                    measure |-> ms.Measure,
                    tags |-> {ms.Tags[j] : j \in 1..Len(ms.Tags)},
                    fields |-> {ms.Fields[j] : j \in 1..Len(ms.Fields)}]
         IN  IF im.fields = {}
             THEN [err |-> "at least one field is required per measurement",
                   measures |-> measures]
             ELSE setupLoop(mss, i + 1,
                            [n \in DOMAIN measures \cup {ms.Namespace} |->
                                IF n = ms.Namespace THEN im ELSE measures[n]])

setupMeasurements(config) ==
    IF Len(config.Measurement) > 0
    THEN setupLoop(config.Measurement, 1, <<>>)
    ELSE [err |-> "at least one measurement is required", measures |-> <<>>]

\* ctx.measures of a worker: set once by setupMeasurements, never changed
Measures(config) == setupMeasurements(config).measures

-----------------------------------------------------------------------------
(* The projection of one op (addPoint, the part that builds the point) *)

\* a changed Offered: the key _id is not skipped
OfferedWithId(data) ==
    UNION {
        IF data[k].t \in {"time", "timestamp"} THEN {}
        ELSE IF data[k].t = "map" THEN flatpairs(k \o ".", data[k].v)
        ELSE {<<k, data[k]>>}
        : k \in DOMAIN data}

\* the <<key, value>> pairs the loop over op.Data offers to the tag/field
\* switch: top-level values that are no time, timestamp or nested document,
\* and the flattened leaves of nested documents; _id is skipped
Offered(data) ==
    UNION {
        IF k = "_id" \/ data[k].t \in {"time", "timestamp"} THEN {}
        ELSE IF data[k].t = "map" THEN flatpairs(k \o ".", data[k].v)
        ELSE {<<k, data[k]>>}
        : k \in DOMAIN data}

pointTags(measure, data) ==
    MapOf({p \in Offered(data) : p[1] \in measure.tags /\ istagtype(p[2])})

pointFields(measure, data) ==
    MapOf({p \in Offered(data) :
              /\ p[1] \notin measure.tags
              /\ p[1] \in measure.fields
              /\ isfieldtype(p[2])})

\* the keys whose value is logged as an unsupported type
Unsupported(measure, data) ==
    {p[1] : p \in {q \in Offered(data) :
                      \/ q[1] \in measure.tags /\ ~istagtype(q[2])
                      \/ /\ q[1] \notin measure.tags
                         /\ q[1] \in measure.fields
                         /\ ~isfieldtype(q[2])}}

\* the time field was found: a top-level key equal to measure.timefield whose
\* value is a time.Time or a bson.MongoTimestamp
TimeFound(measure, data) ==
    /\ measure.timefield # ""
    /\ measure.timefield # "_id"
    /\ measure.timefield \in DOMAIN data
    /\ data[measure.timefield].t \in {"time", "timestamp"}

\* t when the loop ends with timefield == false
pointTime(measure, op) ==
    IF measure.timefield = "" THEN TimestampTime(op.Timestamp)
    ELSE IF op.Data[measure.timefield].t = "time"
         THEN UTC(op.Data[measure.timefield].v)
         ELSE TimestampTime(op.Data[measure.timefield].v)

pointName(measure, op) ==
    IF measure.measure # <<>> THEN measure.measure ELSE GetCollection(op)

\* client.NewPoint: the influx client refuses a point without fields
NewPoint(name, tags, fields, t) ==
    IF DOMAIN fields = {}
    THEN [err |-> "NewPoint", pt |-> <<>>]
    ELSE [err |-> "", pt |-> [name |-> name, tags |-> tags, fields |-> fields, time |-> t]]

\* lines 227-294 of addPoint: the point of op, or the error returned
project(measure, op) ==
    IF measure.timefield # "" /\ ~TimeFound(measure, op.Data)
    THEN [err |-> "time field not found", pt |-> <<>>]
    ELSE NewPoint(pointName(measure, op),
                  pointTags(measure, op.Data),
                  pointFields(measure, op.Data),
                  pointTime(measure, op))

-----------------------------------------------------------------------------
(* The batch map of one worker and its flush.  An InfluxCtx is             *)
(* [m, dbs, lastTs]; m maps a namespace to client.BatchPoints.  An         *)
(* operation returns the new InfluxCtx, its error ("" for nil) and the     *)
(* calls it made: wrote (client.Write) and save (SaveTimestamp).           *)

EmptyMap == <<>>
NewCtx == [m |-> EmptyMap, dbs |-> {}, lastTs |-> Ts0]

\* the orders in which `for _, bp := range ctx.m` may visit the keys of a map
Perms(S) ==
    {s \in [1..Cardinality(S) -> S] :
        \A i, j \in 1..Cardinality(S) : i # j => s[i] # s[j]}

\* what the environment decides during one operation: whether CREATE
\* DATABASE fails, the order of the range over ctx.m, the position of the
\* failing client.Write (0: none fails), whether the checkpoint upsert fails
Fates(createFails, keys, saveFails) ==
    [createFail : createFails, order : Perms(keys),
     failAt : 0..Cardinality(keys), saveFail : saveFails]
NoFate == [createFail |-> FALSE, order |-> <<>>, failAt |-> 0, saveFail |-> FALSE]

\* a changed SaveTimestamp: a lower timestamp does not replace a higher one
SaveTimestampMax(stored, ts) == IF stored # NoDoc /\ TsLess(ts, stored) THEN stored ELSE ts

\* SaveTimestamp when the upsert succeeds: the ts of the resume record after it
SaveTimestamp(stored, ts) == ts

saveTs(c, config, saveFail) ==
    IF config.Resume /\ c.lastTs # Ts0
    THEN [ctx |-> [c EXCEPT !.lastTs = Ts0],
          err |-> IF saveFail THEN "SaveTimestamp" ELSE "",
          save |-> <<[ts |-> c.lastTs, ok |-> ~saveFail]>>]
    ELSE [ctx |-> c, err |-> "", save |-> <<>>]

\* a changed writeBatch: the batches it did not write stay in the map
writeBatchKeeping(c, config, fate) ==
    LET last == IF fate.failAt = 0 THEN Len(fate.order) ELSE fate.failAt
        wrote == [i \in 1..last |->
                    [ns |-> fate.order[i],
                     points |-> c.m[fate.order[i]].points,
                     ok |-> i # fate.failAt]]
        kept == {fate.order[i] : i \in fate.failAt..Len(fate.order)}
        saved == saveTs([c EXCEPT !.m = EmptyMap], config, fate.saveFail)
    IN  IF fate.failAt # 0
        THEN [ctx |-> [c EXCEPT !.m = [ns \in kept |-> c.m[ns]]], err |-> "Write",
              wrote |-> wrote, save |-> <<>>, nfail |-> 1]
        ELSE [ctx |-> saved.ctx, err |-> saved.err, wrote |-> wrote,
              save |-> saved.save, nfail |-> IF saved.err # "" THEN 1 ELSE 0]

\* a changed writeBatch: the checkpoint is saved after a failed Write too
writeBatchSaving(c, config, fate) ==
    LET last == IF fate.failAt = 0 THEN Len(fate.order) ELSE fate.failAt
        wrote == [i \in 1..last |->
                    [ns |-> fate.order[i],
                     points |-> c.m[fate.order[i]].points,
                     ok |-> i # fate.failAt]]
        saved == saveTs([c EXCEPT !.m = EmptyMap], config, fate.saveFail)
    IN  [ctx |-> saved.ctx,
         err |-> IF fate.failAt # 0 THEN "Write" ELSE saved.err,
         wrote |-> wrote, save |-> saved.save,
         nfail |-> IF fate.failAt # 0 \/ saved.err # "" THEN 1 ELSE 0]

\* a changed writeBatch: when the checkpoint save fails the map is not replaced
writeBatchUnsaved(c, config, fate) ==
    LET last == IF fate.failAt = 0 THEN Len(fate.order) ELSE fate.failAt
        wrote == [i \in 1..last |->
                    [ns |-> fate.order[i],
                     points |-> c.m[fate.order[i]].points,
                     ok |-> i # fate.failAt]]
        cleared == [c EXCEPT !.m = EmptyMap]
        saved == saveTs(c, config, fate.saveFail)
    IN  IF fate.failAt # 0
        THEN [ctx |-> cleared, err |-> "Write", wrote |-> wrote, save |-> <<>>,
              nfail |-> 1]
        ELSE [ctx |-> IF saved.err # "" THEN saved.ctx
                      ELSE [saved.ctx EXCEPT !.m = EmptyMap],
              err |-> saved.err, wrote |-> wrote,
              save |-> saved.save, nfail |-> IF saved.err # "" THEN 1 ELSE 0]

writeBatch(c, config, fate) ==
    LET last == IF fate.failAt = 0 THEN Len(fate.order) ELSE fate.failAt
        wrote == [i \in 1..last |->
                    [ns |-> fate.order[i],
                     points |-> c.m[fate.order[i]].points,
                     ok |-> i # fate.failAt]]
        cleared == [c EXCEPT !.m = EmptyMap]
        saved == saveTs(cleared, config, fate.saveFail)
    IN  IF fate.failAt # 0
        THEN [ctx |-> cleared, err |-> "Write", wrote |-> wrote, save |-> <<>>,
              nfail |-> 1]
        ELSE [ctx |-> saved.ctx, err |-> saved.err, wrote |-> wrote,
              save |-> saved.save, nfail |-> IF saved.err # "" THEN 1 ELSE 0]

\* createDatabase: the new dbs and the error
createDatabase(c, config, db, createFail) ==
    IF config.InfluxAutoCreateDB /\ db \notin c.dbs
    THEN IF createFail
         THEN [ctx |-> c, err |-> "CREATE DATABASE"]
         ELSE [ctx |-> [c EXCEPT !.dbs = c.dbs \cup {db}], err |-> ""]
    ELSE [ctx |-> c, err |-> ""]

setupDatabase(c, config, op, createFail) ==
    IF op.Namespace \notin DOMAIN c.m
    THEN LET measure == Measures(config)[op.Namespace]
             bp == [database |-> GetDatabase(op),
                    retention |-> measure.retention,
                    precision |-> measure.precision,
                    points |-> <<>>]
         IN  createDatabase([c EXCEPT !.m = c.m @@ (op.Namespace :> bp)],
                            config, GetDatabase(op), createFail)
    ELSE [ctx |-> c, err |-> ""]

\* the fates that make a difference to writeBatch on c
FlushFates(c, config) ==
    Fates({FALSE}, DOMAIN c.m,
          IF config.Resume /\ c.lastTs # Ts0 THEN BOOLEAN ELSE {FALSE})

Result(c, err, wrote, save, added, nfail) ==
    [ctx |-> c, err |-> err, wrote |-> wrote, save |-> save, added |-> added,
     nfail |-> nfail]

\* a changed addPoint: the flush is triggered above the threshold only
addPointLate(c, config, op, fate) ==
    IF op.Namespace \notin DOMAIN Measures(config)
    THEN Result(c, "", <<>>, <<>>, FALSE, 0)
    ELSE
    LET measure == Measures(config)[op.Namespace]
        sd == setupDatabase(c, config, op, fate.createFail)
        pr == project(measure, op)
        bp == sd.ctx.m[op.Namespace]
        added == [sd.ctx EXCEPT
                    !.m[op.Namespace].points =
                        Append(bp.points, [seq |-> op.seq, ts |-> op.Timestamp, pt |-> pr.pt]),
                    !.lastTs = op.Timestamp]
        wb == writeBatch(added, config, fate)
    IN  IF sd.err # "" THEN Result(sd.ctx, sd.err, <<>>, <<>>, FALSE, 1)
        ELSE IF pr.err # "" THEN Result(sd.ctx, pr.err, <<>>, <<>>, FALSE, 0)
        ELSE IF Len(bp.points) + 1 > config.InfluxBufferSize
        THEN Result(wb.ctx, wb.err, wb.wrote, wb.save, TRUE, wb.nfail)
        ELSE Result(added, "", <<>>, <<>>, TRUE, 0)

\* a changed addPoint: the point is put in front of the batch
addPointInFront(c, config, op, fate) ==
    IF op.Namespace \notin DOMAIN Measures(config)
    THEN Result(c, "", <<>>, <<>>, FALSE, 0)
    ELSE
    LET measure == Measures(config)[op.Namespace]
        sd == setupDatabase(c, config, op, fate.createFail)
        pr == project(measure, op)
        bp == sd.ctx.m[op.Namespace]
        added == [sd.ctx EXCEPT
                    !.m[op.Namespace].points =
                        <<[seq |-> op.seq, ts |-> op.Timestamp, pt |-> pr.pt]>> \o bp.points,
                    !.lastTs = op.Timestamp]
        wb == writeBatch(added, config, fate)
    IN  IF sd.err # "" THEN Result(sd.ctx, sd.err, <<>>, <<>>, FALSE, 1)
        ELSE IF pr.err # "" THEN Result(sd.ctx, pr.err, <<>>, <<>>, FALSE, 0)
        ELSE IF Len(bp.points) + 1 >= config.InfluxBufferSize
        THEN Result(wb.ctx, wb.err, wb.wrote, wb.save, TRUE, wb.nfail)
        ELSE Result(added, "", <<>>, <<>>, TRUE, 0)

\* a changed addPoint: lastTs is assigned before the point is built
addPointTracking(c, config, op, fate) ==
    IF op.Namespace \notin DOMAIN Measures(config)
    THEN Result(c, "", <<>>, <<>>, FALSE, 0)
    ELSE
    LET measure == Measures(config)[op.Namespace]
        sd == setupDatabase(c, config, op, fate.createFail)
        pr == project(measure, op)
        bp == sd.ctx.m[op.Namespace]
        added == [sd.ctx EXCEPT
                    !.m[op.Namespace].points =
                        Append(bp.points, [seq |-> op.seq, ts |-> op.Timestamp, pt |-> pr.pt]),
                    !.lastTs = op.Timestamp]
        wb == writeBatch(added, config, fate)
    IN  IF sd.err # "" THEN Result(sd.ctx, sd.err, <<>>, <<>>, FALSE, 1)
        ELSE IF pr.err # ""
        THEN Result([sd.ctx EXCEPT !.lastTs = op.Timestamp], pr.err, <<>>, <<>>, FALSE, 0)
        ELSE IF Len(bp.points) + 1 >= config.InfluxBufferSize
        THEN Result(wb.ctx, wb.err, wb.wrote, wb.save, TRUE, wb.nfail)
        ELSE Result(added, "", <<>>, <<>>, TRUE, 0)

addPoint(c, config, op, fate) ==
    IF op.Namespace \notin DOMAIN Measures(config)
    THEN Result(c, "", <<>>, <<>>, FALSE, 0)
    ELSE
    LET measure == Measures(config)[op.Namespace]
        sd == setupDatabase(c, config, op, fate.createFail)
        pr == project(measure, op)
        bp == sd.ctx.m[op.Namespace]
        added == [sd.ctx EXCEPT
                    !.m[op.Namespace].points =
                        Append(bp.points, [seq |-> op.seq, ts |-> op.Timestamp, pt |-> pr.pt]),
                    !.lastTs = op.Timestamp]
        wb == writeBatch(added, config, fate)
    IN  IF sd.err # "" THEN Result(sd.ctx, sd.err, <<>>, <<>>, FALSE, 1)
        ELSE IF pr.err # "" THEN Result(sd.ctx, pr.err, <<>>, <<>>, FALSE, 0)
        ELSE IF Len(bp.points) + 1 >= config.InfluxBufferSize
        THEN Result(wb.ctx, wb.err, wb.wrote, wb.save, TRUE, wb.nfail)
        ELSE Result(added, "", <<>>, <<>>, TRUE, 0)

\* the fates that make a difference to addPoint of op on c
AddFates(c, config, op) ==
    IF op.Namespace \notin DOMAIN Measures(config) THEN {NoFate}
    ELSE LET creates == IF /\ op.Namespace \notin DOMAIN c.m
                           /\ config.InfluxAutoCreateDB
                           /\ GetDatabase(op) \notin c.dbs
                        THEN BOOLEAN ELSE {FALSE}
             size == IF op.Namespace \in DOMAIN c.m
                     THEN Len(c.m[op.Namespace].points) ELSE 0
         IN  IF size + 1 >= config.InfluxBufferSize
             THEN Fates(creates, DOMAIN c.m \cup {op.Namespace},
                        IF config.Resume THEN BOOLEAN ELSE {FALSE})
             ELSE {[NoFate EXCEPT !.createFail = b] : b \in creates}

-----------------------------------------------------------------------------
(* The pipeline of main: the upstream reader, the goroutines that publish  *)
(* the stop, the supervisor and config.InfluxClients worker goroutines.    *)

Val(t, v) == [t |-> t, v |-> v]
nsCity == sWeather \o sDot \o sCity
nsTown == sWeather \o sDot \o sTown
nsResume == sMongofluxd \o sDot \o sResume

Setting(ns, timefield, measure, tags, fields) ==
    [Namespace |-> ns, Timefield |-> timefield, Retention |-> "", Precision |-> "",
     Measure |-> measure, Tags |-> tags, Fields |-> fields]

\* the measurements of the pipeline runs: tags = [region], fields = [temp]
PipelineMeasurement ==
    <<Setting(nsCity, "", <<>>, <<"region">>, <<"temp">>),
      Setting(nsTown, "", <<>>, <<"region">>, <<"temp">>),
      Setting(nsResume, "", <<>>, <<"region">>, <<"temp">>)>>

Config(clients, resume, autoCreate, exitAfter) ==
    [InfluxClients |-> clients, InfluxBufferSize |-> BufferSize,
     ChannelSize |-> OpCap,
     InfluxAutoCreateDB |-> autoCreate,
     Resume |-> resume, Replay |-> FALSE, ResumeFromTimestamp |-> Ts0,
     DirectReads |-> exitAfter, ExitAfterDirectReads |-> exitAfter,
     NsRegex |-> NoRegex, NsExcludeRegex |-> NoRegex,
     Measurement |-> PipelineMeasurement]

GoodDoc == [_id |-> Val("string", 1), region |-> Val("string", 1), temp |-> Val("float64", 1)]
BadDoc == [_id |-> Val("string", 1), region |-> Val("string", 1), temp |-> Val("array", 1)]

Op(operation, ns, ts, data) ==
    [Operation |-> operation, Namespace |-> ns, Timestamp |-> ts, Data |-> data]

\* the ops of the runs with NClients workers: one measured namespace, and an
\* op on the checkpoint database
PipelineOps ==
    {Op("i", nsCity, ts, d) : ts \in {MkTs(1, 0), MkTs(2, 0)}, d \in {GoodDoc, BadDoc}}
    \cup {Op("i", nsResume, MkTs(1, 0), GoodDoc)}

\* the ops of the runs with one worker: two measured namespaces
WorkerOps ==
    {Op("i", nsCity, MkTs(1, 0), GoodDoc),
     Op("i", nsTown, MkTs(2, 0), GoodDoc),
     Op("u", nsCity, MkTs(2, 0), BadDoc)}

\* the sequences of at most n ops of S, each with its position as seq
RECURSIVE Oplogs(_, _)
Oplogs(S, n) ==
    IF n = 0 THEN {<<>>}
    ELSE LET shorter == Oplogs(S, n - 1)
         IN  shorter \cup {Append(l, [seq |-> n] @@ o) : l \in {k \in shorter : Len(k) = n - 1}, o \in S}

NoStart == [tail |-> Ts0, ts |-> <<>>]

Workers == 1..cfg.InfluxClients
Running == mainPc \notin {"exited", "panicked"}

InitWith(config, ops, n) ==
    /\ cfg = config
    /\ source = [ops |-> ops, n |-> n]
    /\ opC = <<>>
    /\ errC = 0
    /\ stopC = 0
    /\ shutdownC = 0
    /\ wg = 0
    /\ exitStatus = 0
    /\ mainPc = "waitStop"
    /\ sent = 0
    /\ stoppers = {"signal"} \cup
                  (IF config.DirectReads /\ config.ExitAfterDirectReads
                   THEN {"directReads"} ELSE {})
    /\ pc = [w \in 1..config.InfluxClients |-> "start"]
    /\ ctx = [w \in 1..config.InfluxClients |-> NewCtx]
    /\ store = NoDoc
    /\ sink = [w \in 1..config.InfluxClients |-> <<>>]
    /\ saves = [w \in 1..config.InfluxClients |-> <<>>]
    /\ batched = [w \in 1..config.InfluxClients |-> {}]
    /\ errs = FALSE
    /\ produced = 0
    /\ fails = 0
    /\ start = NoStart

\* a run with NClients workers
Init ==
    \E resume \in BOOLEAN :
        InitWith(Config(NClients, resume, TRUE, TRUE), PipelineOps, MaxPipelineOps)

\* One worker at its select, when the upstream reader has delivered the
\* whole oplog of the run and main has sent the shutdown signal already:
\* the worker alone decides what happens next
InitWorker ==
    \E resume \in BOOLEAN, autoCreate \in BOOLEAN, log \in Oplogs(WorkerOps, MaxOps) :
        /\ cfg = [Config(1, resume, autoCreate, FALSE) EXCEPT !.ChannelSize = MaxOps]
        /\ source = [ops |-> WorkerOps, n |-> Len(log)]
        /\ opC = log
        /\ errC = 0
        /\ stopC = 0
        /\ shutdownC = 1
        /\ wg = 1
        /\ exitStatus = 0
        /\ mainPc = "shutdown"
        /\ sent = 1
        /\ stoppers = {}
        /\ pc = [w \in {1} |-> "select"]
        /\ ctx = [w \in {1} |-> NewCtx]
        /\ store = NoDoc
        /\ sink = [w \in {1} |-> <<>>]
        /\ saves = [w \in {1} |-> <<>>]
        /\ batched = [w \in {1} |-> {}]
        /\ errs = FALSE
        /\ produced = Len(log)
        /\ fails = 0
        /\ start = NoStart

\* the upstream reader (gtm) handles the next op of the oplog: the filter
\* decides whether it is delivered to OpC
Produce ==
    /\ Running
    /\ produced < source.n
    /\ Len(opC) < cfg.ChannelSize
    /\ \E o \in source.ops :
        opC' = IF filter(cfg, o)
               THEN Append(opC, [seq |-> produced + 1] @@ o)
               ELSE opC
    /\ produced' = produced + 1
    /\ UNCHANGED <<cfg, source, errC, stopC, shutdownC, wg, exitStatus, mainPc, sent,
                   stoppers, pc, ctx, store, sink, saves, batched, errs, fails, start>>

\* the upstream reader reports an error of its own on ErrC
UpstreamError ==
    /\ Running
    /\ fails < MaxFails
    /\ errC < ErrCap
    /\ errC' = errC + 1
    /\ fails' = fails + 1
    /\ UNCHANGED <<cfg, source, opC, stopC, shutdownC, wg, exitStatus, mainPc, sent,
                   stoppers, pc, ctx, store, sink, saves, batched, errs, produced, start>>

\* go func() { <-sigs; stopC <- true }(): the send blocks while stopC is full
SignalStop ==
    /\ Running
    /\ "signal" \in stoppers
    /\ stopC = 0
    /\ stopC' = 1
    /\ stoppers' = stoppers \ {"signal"}
    /\ UNCHANGED <<cfg, source, opC, errC, shutdownC, wg, exitStatus, mainPc, sent,
                   pc, ctx, store, sink, saves, batched, errs, produced, fails, start>>

\* go func() { gtmCtx.DirectReadWg.Wait(); stopC <- true }()
DirectReadStop ==
    /\ Running
    /\ "directReads" \in stoppers
    /\ stopC = 0
    /\ stopC' = 1
    /\ stoppers' = stoppers \ {"directReads"}
    /\ UNCHANGED <<cfg, source, opC, errC, shutdownC, wg, exitStatus, mainPc, sent,
                   pc, ctx, store, sink, saves, batched, errs, produced, fails, start>>

\* <-stopC
MainStop ==
    /\ mainPc = "waitStop"
    /\ stopC > 0
    /\ stopC' = stopC - 1
    /\ mainPc' = "shutdown"
    /\ UNCHANGED <<cfg, source, opC, errC, shutdownC, wg, exitStatus, sent,
                   stoppers, pc, ctx, store, sink, saves, batched, errs, produced,
                   fails, start>>

\* shutdownC <- true, once per iteration of the loop
MainSend ==
    /\ mainPc = "shutdown"
    /\ sent < cfg.InfluxClients
    /\ shutdownC < cfg.InfluxClients
    /\ shutdownC' = shutdownC + 1
    /\ sent' = sent + 1
    /\ UNCHANGED <<cfg, source, opC, errC, stopC, wg, exitStatus, mainPc,
                   stoppers, pc, ctx, store, sink, saves, batched, errs, produced,
                   fails, start>>

\* wg.Wait() returns when the counter is zero
MainWait ==
    /\ mainPc = "shutdown"
    /\ sent = cfg.InfluxClients
    /\ wg = 0
    /\ mainPc' = "closing"
    /\ UNCHANGED <<cfg, source, opC, errC, stopC, shutdownC, wg, exitStatus, sent,
                   stoppers, pc, ctx, store, sink, saves, batched, errs, produced,
                   fails, start>>

\* mongo.Close(); influxClient.Close(); os.Exit(exitStatus)
MainExit ==
    /\ mainPc = "closing"
    /\ mainPc' = "exited"
    /\ UNCHANGED <<cfg, source, opC, errC, stopC, shutdownC, wg, exitStatus, sent,
                   stoppers, pc, ctx, store, sink, saves, batched, errs, produced,
                   fails, start>>

\* the worker goroutine up to its loop: wg.Add(1), setupMeasurements
WorkerStart(w) ==
    /\ Running
    /\ pc[w] = "start"
    /\ wg' = wg + 1
    /\ IF setupMeasurements(cfg).err # ""
       THEN mainPc' = "panicked" /\ pc' = pc
       ELSE mainPc' = mainPc /\ pc' = [pc EXCEPT ![w] = "select"]
    /\ UNCHANGED <<cfg, source, opC, errC, stopC, shutdownC, exitStatus, sent,
                   stoppers, ctx, store, sink, saves, batched, errs, produced,
                   fails, start>>

\* what an operation of worker w did to the sink, the checkpoint store and
\* the histories
Effects(w, r) ==
    /\ fails + r.nfail <= MaxFails
    /\ fails' = fails + r.nfail
    /\ ctx' = [ctx EXCEPT ![w] = r.ctx]
    /\ sink' = [sink EXCEPT ![w] = @ \o
                  [i \in 1..Len(r.wrote) |->
                      [ns |-> r.wrote[i].ns, ok |-> r.wrote[i].ok,
                       seqs |-> [j \in 1..Len(r.wrote[i].points) |->
                                    r.wrote[i].points[j].seq]]]]
    /\ saves' = [saves EXCEPT ![w] = @ \o r.save]
    /\ store' = IF r.save # <<>> /\ r.save[1].ok
                THEN SaveTimestamp(store, r.save[1].ts) ELSE store
    /\ errs' = (errs \/ r.err \in {"Write", "SaveTimestamp", "NewPoint", "time field not found"})

\* case <-shutdownC: the final flush, then return (deferred wg.Done)
RecvShutdown(w) ==
    /\ Running
    /\ pc[w] = "select"
    /\ shutdownC > 0
    /\ shutdownC' = shutdownC - 1
    /\ \E fate \in FlushFates(ctx[w], cfg) :
        LET r == writeBatch(ctx[w], cfg, fate)
        IN  /\ Effects(w, r)
            /\ exitStatus' = IF r.err # "" THEN 1 ELSE exitStatus
    /\ pc' = [pc EXCEPT ![w] = "done"]
    /\ wg' = wg - 1
    /\ UNCHANGED <<cfg, source, opC, errC, stopC, mainPc, sent, stoppers, batched,
                   produced, start>>

\* case <-flusher.C: flush; an error is then sent to ErrC
Tick(w) ==
    /\ Running
    /\ pc[w] = "select"
    /\ \E fate \in FlushFates(ctx[w], cfg) :
        LET r == writeBatch(ctx[w], cfg, fate)
        IN  /\ Effects(w, r)
            /\ pc' = [pc EXCEPT ![w] = IF r.err # "" THEN "sendErr" ELSE "select"]
    /\ UNCHANGED <<cfg, source, opC, errC, stopC, shutdownC, wg, exitStatus, mainPc,
                   sent, stoppers, batched, produced, start>>

\* case err = <-gtmCtx.ErrC
RecvErr(w) ==
    /\ Running
    /\ pc[w] = "select"
    /\ errC > 0
    /\ errC' = errC - 1
    /\ exitStatus' = 1
    /\ UNCHANGED <<cfg, source, opC, stopC, shutdownC, wg, mainPc, sent, stoppers,
                   pc, ctx, store, sink, saves, batched, errs, produced, fails, start>>

\* case op := <-gtmCtx.OpC: addPoint; an error is then sent to ErrC
RecvOp(w) ==
    /\ Running
    /\ pc[w] = "select"
    /\ opC # <<>>
    /\ opC' = Tail(opC)
    /\ \E fate \in AddFates(ctx[w], cfg, Head(opC)) :
        LET r == addPoint(ctx[w], cfg, Head(opC), fate)
        IN  /\ Effects(w, r)
            /\ pc' = [pc EXCEPT ![w] = IF r.err # "" THEN "sendErr" ELSE "select"]
            /\ batched' = IF r.added
                          THEN [batched EXCEPT ![w] = @ \cup {Head(opC)}]
                          ELSE batched
    /\ UNCHANGED <<cfg, source, errC, stopC, shutdownC, wg, exitStatus, mainPc,
                   sent, stoppers, produced, start>>

\* gtmCtx.ErrC <- err: blocks while the channel is full
SendErr(w) ==
    /\ Running
    /\ pc[w] = "sendErr"
    /\ errC < ErrCap
    /\ errC' = errC + 1
    /\ pc' = [pc EXCEPT ![w] = "select"]
    /\ UNCHANGED <<cfg, source, opC, stopC, shutdownC, wg, exitStatus, mainPc, sent,
                   stoppers, ctx, store, sink, saves, batched, errs, produced,
                   fails, start>>

Next ==
    \/ Produce
    \/ UpstreamError
    \/ SignalStop
    \/ DirectReadStop
    \/ MainStop
    \/ MainSend
    \/ MainWait
    \/ MainExit
    \/ \E w \in Workers : WorkerStart(w)
    \/ \E w \in Workers : RecvShutdown(w)
    \/ \E w \in Workers : Tick(w)
    \/ \E w \in Workers : RecvErr(w)
    \/ \E w \in Workers : RecvOp(w)
    \/ \E w \in Workers : SendErr(w)

Spec == Init /\ [][Next]_vars

\* the steps of a run with one worker once the oplog is delivered and the
\* shutdown signal sent
NextWorker ==
    \/ MainWait
    \/ MainExit
    \/ \E w \in Workers : RecvShutdown(w)
    \/ \E w \in Workers : Tick(w)
    \/ \E w \in Workers : RecvErr(w)
    \/ \E w \in Workers : RecvOp(w)
    \/ \E w \in Workers : SendErr(w)

WorkerSpec == InitWorker /\ [][NextWorker]_vars

\* a step of worker w at its select or at its send to ErrC
WorkerStep(w) ==
    RecvShutdown(w) \/ Tick(w) \/ RecvErr(w) \/ RecvOp(w) \/ SendErr(w)

\* a step of main
MainStep == MainStop \/ MainSend \/ MainWait \/ MainExit

-----------------------------------------------------------------------------
(* gtm.Start: the reader evaluates options.After once *)

InitAfter ==
    \E replay \in BOOLEAN, resume \in BOOLEAN,
       from \in {Ts0, MkTs(3, 0)},
       stored \in {NoDoc, MkTs(1, 0), MkTs(2, 5)},
       tail \in {Ts0, MkTs(4, 0), MkTs(5, 1)} :
        /\ cfg = [Config(1, resume, TRUE, FALSE) EXCEPT
                     !.Replay = replay, !.ResumeFromTimestamp = from]
        /\ source = [ops |-> {}, n |-> 0]
        /\ opC = <<>>
        /\ errC = 0
        /\ stopC = 0
        /\ shutdownC = 0
        /\ wg = 0
        /\ exitStatus = 0
        /\ mainPc = "waitStop"
        /\ sent = 0
        /\ stoppers = {"signal"}
        /\ pc = [w \in {1} |-> "start"]
        /\ ctx = [w \in {1} |-> NewCtx]
        /\ store = stored
        /\ sink = [w \in {1} |-> <<>>]
        /\ saves = [w \in {1} |-> <<>>]
        /\ batched = [w \in {1} |-> {}]
        /\ errs = FALSE
        /\ produced = 0
        /\ fails = 0
        /\ start = [tail |-> tail, ts |-> <<>>]

Start ==
    /\ Running
    /\ start.ts = <<>>
    /\ start' = [start EXCEPT !.ts = <<StartTimestamp(cfg, store, start.tail)>>]
    /\ UNCHANGED <<cfg, source, opC, errC, stopC, shutdownC, wg, exitStatus, mainPc,
                   sent, stoppers, pc, ctx, store, sink, saves, batched, errs,
                   produced, fails>>

NextAfter == Start

AfterSpec == InitAfter /\ [][NextAfter]_vars

-----------------------------------------------------------------------------
(* One op through addPoint: a worker at its select with one op of the      *)
(* measured namespace in OpC; the document carries region and temp values  *)
(* of every type.                                                          *)

ValueTypes ==
    {"string", "int64", "float64", "bool", "time", "timestamp", "array", "int32", "nil"}

Value(t) ==
    CASE t = "time" -> Val(t, MkTime(7, "Local"))
      [] t = "timestamp" -> Val(t, MkTs(7, 0))
      [] OTHER -> Val(t, 1)

\* the values of one key: absent (<<>>), a value of each type, a nested document
KeyValues ==
    {<<>>} \cup {<<Value(t)>> : t \in ValueTypes}
           \cup {<<Val("map", [c |-> Val("float64", 1)])>>}

Doc(region, temp) ==
    MapOf({<<"_id", Val("string", 1)>>}
          \cup {<<"region", region[i]>> : i \in 1..Len(region)}
          \cup {<<"temp", temp[i]>> : i \in 1..Len(temp)})

AddOps ==
    {Op("i", nsCity, MkTs(1, 0), Doc(region, temp)) :
        region \in {<<>>, <<Value("string")>>, <<Value("int64")>>},
        temp \in KeyValues}

InitAdd ==
    \E resume \in BOOLEAN, autoCreate \in BOOLEAN, o \in AddOps :
        /\ cfg = Config(1, resume, autoCreate, FALSE)
        /\ source = [ops |-> {o}, n |-> 1]
        /\ opC = <<[seq |-> 1] @@ o>>
        /\ errC = 0
        /\ stopC = 0
        /\ shutdownC = 0
        /\ wg = 1
        /\ exitStatus = 0
        /\ mainPc = "waitStop"
        /\ sent = 0
        /\ stoppers = {"signal"}
        /\ pc = [w \in {1} |-> "select"]
        /\ ctx = [w \in {1} |-> NewCtx]
        /\ store = NoDoc
        /\ sink = [w \in {1} |-> <<>>]
        /\ saves = [w \in {1} |-> <<>>]
        /\ batched = [w \in {1} |-> {}]
        /\ errs = FALSE
        /\ produced = 1
        /\ fails = 0
        /\ start = NoStart

NextAdd == \E w \in Workers : RecvOp(w)

AddSpec == InitAdd /\ [][NextAdd]_vars

-----------------------------------------------------------------------------
(* One op through the filter: the reader handles one op of any operation   *)
(* and namespace, under every choice of the two namespace regexes; every   *)
(* namespace is a configured measurement, so that a delivered op is        *)
(* batched by the worker.                                                  *)

sUsers == <<"u","s","e","r","s">>
sMy == <<"m","y">>

\* database and collection of the namespaces of the ops
FilterNameList ==
    <<[db |-> sWeather, coll |-> sCity],
     [db |-> sWeather, coll |-> sTown],
     [db |-> sMongofluxd, coll |-> sResume],
     [db |-> sMongofluxd, coll |-> sCity],
     [db |-> sWeather, coll |-> sFs \o sDot \o sChunks],
     [db |-> sWeather, coll |-> sChunks],
     [db |-> sWeather, coll |-> sFs \o sDot \o sChunks \o sDot \o sCity],
     [db |-> sWeather, coll |-> sSystem \o sDot \o sUsers],
     [db |-> sWeather, coll |-> sSystem \o sDot],
     [db |-> sWeather, coll |-> sMy \o sSystem \o sDot \o sUsers],
     [db |-> sSystem, coll |-> sCity],
     [db |-> sChunks, coll |-> sTown]>>
FilterNames == {FilterNameList[i] : i \in DOMAIN FilterNameList}

FilterOps ==
    {Op(operation, n.db \o sDot \o n.coll, MkTs(1, 0), GoodDoc) :
        operation \in {"i", "u", "d", "c"}, n \in FilterNames}

\* one measurement per namespace
FilterMeasurement ==
    [i \in DOMAIN FilterNameList |->
        Setting(FilterNameList[i].db \o sDot \o FilterNameList[i].coll, "", <<>>,
                <<"region">>, <<"temp">>)]

Regex(anchored, lit) == [anchored |-> anchored, lit |-> lit]

InitFilter ==
    \E o \in FilterOps,
       include \in {NoRegex, Regex(TRUE, sWeather \o sDot), Regex(FALSE, sTown)},
       exclude \in {NoRegex, Regex(FALSE, sCity), Regex(TRUE, sChunks)} :
        /\ cfg = [Config(1, FALSE, FALSE, FALSE) EXCEPT
                     !.NsRegex = include, !.NsExcludeRegex = exclude,
                     !.Measurement = FilterMeasurement]
        /\ source = [ops |-> {o}, n |-> 1]
        /\ opC = <<>>
        /\ errC = 0
        /\ stopC = 0
        /\ shutdownC = 0
        /\ wg = 1
        /\ exitStatus = 0
        /\ mainPc = "waitStop"
        /\ sent = 0
        /\ stoppers = {"signal"}
        /\ pc = [w \in {1} |-> "select"]
        /\ ctx = [w \in {1} |-> NewCtx]
        /\ store = NoDoc
        /\ sink = [w \in {1} |-> <<>>]
        /\ saves = [w \in {1} |-> <<>>]
        /\ batched = [w \in {1} |-> {}]
        /\ errs = FALSE
        /\ produced = 0
        /\ fails = 0
        /\ start = NoStart

NextFilter ==
    \/ Produce
    \/ \E w \in Workers : RecvOp(w)

FilterSpec == InitFilter /\ [][NextFilter]_vars

-----------------------------------------------------------------------------
(* What the histories say *)

Range(f) == {f[i] : i \in DOMAIN f}
Last(q) == q[Len(q)]

\* point seq was in a client.Write call of log that succeeded
WrittenOk(log, seq) == \E i \in 1..Len(log) : log[i].ok /\ seq \in Range(log[i].seqs)
\* the client.Write calls of log that point seq was passed to
Passes(log, seq) == {i \in 1..Len(log) : seq \in Range(log[i].seqs)}
\* point seq is in an open batch of c
InMap(c, seq) == \E ns \in DOMAIN c.m : \E j \in 1..Len(c.m[ns].points) : c.m[ns].points[j].seq = seq
\* the ops delivered so far came in the order of their timestamps
Ordered ==
    \A a, b \in UNION {batched[w] : w \in Workers} \cup Range(opC) :
        a.seq < b.seq => TsLeq(a.Timestamp, b.Timestamp)

\* the points in the open batches of c
Open(c) == UNION {Range(c.m[ns].points) : ns \in DOMAIN c.m}

-----------------------------------------------------------------------------
(* Claims *)

\* C1: when a sink write fails during a flush, every batch that was not
\* written successfully stays in the worker's batch map (to be written by the
\* next flush): a point appended to a batch of a running worker is in its
\* batch map until a client.Write that holds it succeeds.
C1_FailedBatchesRetained ==
    \A w \in Workers :
        pc[w] # "done" =>
            \A o \in batched[w] : WrittenOk(sink[w], o.seq) \/ InMap(ctx[w], o.seq)

\* C2: whenever a worker writes the checkpoint store with timestamp T, every
\* point that worker batched from an op with timestamp <= T has been written
\* to the sink successfully.
C2_CheckpointCoversOnlyWritten ==
    [][\A w \in Workers :
          (Len(saves'[w]) > Len(saves[w]) /\ Last(saves'[w]).ok) =>
              \A o \in batched'[w] :
                  TsLeq(o.Timestamp, Last(saves'[w]).ts) => WrittenOk(sink'[w], o.seq)]_vars

\* C3: with two or more workers, ops delivered in the order of their
\* timestamps and sink writes that never fail, the persisted checkpoint is
\* never greater than the timestamp of an op some worker holds in an open
\* batch.
C3_CheckpointBelowInFlight ==
    (cfg.InfluxClients >= 2 /\ fails = 0 /\ store # NoDoc /\ Ordered) =>
        \A w \in Workers : \A p \in Open(ctx[w]) : TsLeq(store, p.ts)

\* C4: no point is passed to client.Write more than once in a run.
C4_AtMostOnce ==
    \A w \in Workers : \A o \in batched[w] :
        /\ Cardinality(Passes(sink[w], o.seq)) <= 1
        /\ \A v \in Workers \ {w} : Passes(sink[v], o.seq) = {}

\* a write of points failed, a later write of points succeeded, and the
\* worker has made its final flush
C4_Witness ==
    \E w \in Workers :
        /\ pc[w] = "done"
        /\ \E i, j \in 1..Len(sink[w]) :
            /\ i < j
            /\ ~sink[w][i].ok /\ sink[w][i].seqs # <<>>
            /\ sink[w][j].ok /\ sink[w][j].seqs # <<>>

\* C5: once a stop is published and the workers run, the shutdown goes
\* through to the exit of the process: until main has passed wg.Wait(), main
\* or some worker can take a step (no state is left from which no worker can
\* receive its shutdown signal and main waits for ever).
C5_ShutdownCompletes ==
    (/\ stopC > 0 \/ mainPc = "shutdown"
     /\ mainPc \in {"waitStop", "shutdown"}
     /\ \A w \in Workers : pc[w] # "start")
        => ENABLED (MainStep \/ \E w \in Workers : WorkerStep(w))

\* C6: the process exits with status 1 whenever an addPoint or a flush of a
\* worker returned an error during the run.
C6_ExitStatusReflectsErrors ==
    (mainPc = "exited" /\ errs /\ \A w \in Workers : pc[w] = "done") => exitStatus = 1

\* C7: a worker whose addPoint or tick flush returned an error gets back to
\* its select: its send to ErrC can complete, or a worker is left that can
\* receive from ErrC and make room for it.
C7_ErrorNeverStopsWorker ==
    \A w \in Workers :
        (Running /\ pc[w] = "sendErr") =>
            \/ ENABLED SendErr(w)
            \/ \E v \in Workers : pc[v] \in {"start", "select"}

\* the op of a run with one op
TheOp == CHOOSE o \in source.ops : TRUE
TheMeasure == Measures(cfg)[TheOp.Namespace]
HasTemp(types) == "temp" \in DOMAIN TheOp.Data /\ TheOp.Data.temp.t \in types
Handled == opC = <<>> /\ produced = 1
NoPoint == \A w \in Workers : batched[w] = {} /\ Open(ctx[w]) = {}

\* C8 as stated: the start timestamp is 0 if replay; otherwise the explicit
\* resume-from value if one is set; otherwise, if resume is enabled, the
\* stored checkpoint or 0 when none is stored; otherwise the current tail.
C8_AsStated ==
    start.ts # <<>> =>
        start.ts[1] =
            IF cfg.Replay THEN Ts0
            ELSE IF cfg.ResumeFromTimestamp # Ts0 THEN cfg.ResumeFromTimestamp
            ELSE IF cfg.Resume THEN (IF store # NoDoc THEN store ELSE Ts0)
            ELSE start.tail

\* C8: the start timestamp is 0 if replay; otherwise, if resume is enabled,
\* the explicit resume-from value if one is set, else the stored checkpoint,
\* or the current tail when none is stored; otherwise (resume not enabled)
\* the current tail, whatever the resume-from value.
C8_StartTimestamp ==
    start.ts # <<>> =>
        start.ts[1] =
            IF cfg.Replay THEN Ts0
            ELSE IF cfg.Resume
                 THEN IF cfg.ResumeFromTimestamp # Ts0 THEN cfg.ResumeFromTimestamp
                      ELSE IF store # NoDoc THEN store
                      ELSE start.tail
            ELSE start.tail

C8_Witness ==
    /\ start.ts # <<>>
    /\ ~cfg.Replay /\ ~cfg.Resume /\ cfg.ResumeFromTimestamp # Ts0
    /\ start.ts[1] = start.tail
    /\ start.tail # cfg.ResumeFromTimestamp

\* C9 as stated: with tags = [region] and fields = [temp], an op whose temp
\* is a string contributes no field: the mismatch is logged and no point is
\* added to the batch.
C9_AsStated ==
    (Handled /\ HasTemp({"string"})) =>
        /\ "temp" \in Unsupported(TheMeasure, TheOp.Data)
        /\ "temp" \notin DOMAIN pointFields(TheMeasure, TheOp.Data)
        /\ NoPoint

\* C9: with tags = [region] and fields = [temp], an op whose temp is a
\* string contributes the field temp, nothing is logged for temp and, unless
\* CREATE DATABASE failed, the point is added to the batch; an op whose temp
\* is of a type that is no field type (array, int32, null) contributes no
\* field: the mismatch is logged, the fields map stays empty and no point is
\* added to the batch.
C9_StringIsAField ==
    /\ (Handled /\ HasTemp({"string"})) =>
          /\ "temp" \notin Unsupported(TheMeasure, TheOp.Data)
          /\ pointFields(TheMeasure, TheOp.Data) = [temp |-> TheOp.Data.temp]
          /\ fails = 0 =>
                \A w \in Workers :
                    /\ pc[w] = "select"
                    /\ \E p \in Open(ctx[w]) : p.pt.fields = [temp |-> TheOp.Data.temp]
    /\ (Handled /\ HasTemp({"array", "int32", "nil"})) =>
          /\ "temp" \in Unsupported(TheMeasure, TheOp.Data)
          /\ DOMAIN pointFields(TheMeasure, TheOp.Data) = {}
          /\ NoPoint

C9_Witness ==
    /\ Handled
    /\ HasTemp({"string"})
    /\ \E w \in Workers : \E p \in Open(ctx[w]) : "temp" \in DOMAIN p.pt.fields

\* s ends in suffix
EndsIn(s, suffix) ==
    \E prefix \in {SubSeq(s, 1, i) : i \in 0..Len(s)} : s = prefix \o suffix
\* s holds part followed by at least one more character
HoldsBeforeMore(s, part) ==
    \E i \in 0..Len(s), j \in 1..Len(s) : i + Len(part) + j = Len(s) /\
        SubSeq(s, i + 1, i + Len(part)) = part
\* database and collection of op o, from the table of names
NameOf(o) == CHOOSE n \in FilterNames : n.db \o sDot \o n.coll = o.Namespace

\* the conditions of C10
Admitted(o) ==
    /\ o.Operation \in {"i", "u"}
    /\ NameOf(o).db # sMongofluxd
    /\ ~EndsIn(NameOf(o).coll, sDot \o sChunks)
    /\ ~HoldsBeforeMore(NameOf(o).coll, sSystem \o sDot)
    /\ cfg.NsRegex # NoRegex => MatchString(cfg.NsRegex, o.Namespace)
    /\ cfg.NsExcludeRegex # NoRegex => ~MatchString(cfg.NsExcludeRegex, o.Namespace)

\* the reader delivered op o to OpC
Delivered(o) ==
    \/ \E i \in 1..Len(opC) : opC[i].Namespace = o.Namespace
    \/ \E w \in Workers : batched[w] # {}

\* C10: an op is admitted to the pipeline if and only if its operation is
\* insert or update, its database is not "mongofluxd", its collection does
\* not end in ".chunks", its collection does not match system\..+, it matches
\* the include regex when one is configured and it does not match the
\* exclude regex when one is configured; no point is ever batched for an op
\* whose database is "mongofluxd".
C10_FilterChain ==
    /\ produced = 1 => (Delivered(TheOp) <=> Admitted(TheOp))
    /\ \A w \in Workers : \A o \in batched[w] : NameOf(o).db # sMongofluxd

C10_Witness ==
    /\ cfg.NsRegex # NoRegex
    /\ cfg.NsExcludeRegex # NoRegex
    /\ \E w \in Workers : \E o \in batched[w] : Admitted(o)

-----------------------------------------------------------------------------
(* The start of a worker under every configuration of at most             *)
(* MaxMeasurements measurements.                                           *)

MaxMeasurements == 2

SetupSettings ==
    {Setting(ns, "", <<>>, tags, fields) :
        ns \in {nsCity, nsTown},
        tags \in {<<>>, <<"region">>},
        fields \in {<<>>, <<"temp">>}}

RECURSIVE Measurements(_)
Measurements(n) ==
    IF n = 0 THEN {<<>>}
    ELSE LET shorter == Measurements(n - 1)
         IN  shorter \cup {Append(l, ms) : l \in {k \in shorter : Len(k) = n - 1},
                                           ms \in SetupSettings}

InitSetup ==
    \E mss \in Measurements(MaxMeasurements) :
        InitWith([Config(1, FALSE, TRUE, FALSE) EXCEPT !.Measurement = mss], {}, 0)

NextSetup == \E w \in Workers : WorkerStart(w)

SetupSpec == InitSetup /\ [][NextSetup]_vars

\* the three cases of C11
NoMeasurement == Len(cfg.Measurement) = 0
EmptyFields == \E i \in 1..Len(cfg.Measurement) : Len(cfg.Measurement[i].Fields) = 0
SharedNamespace ==
    \E i, j \in 1..Len(cfg.Measurement) :
        i # j /\ cfg.Measurement[i].Namespace = cfg.Measurement[j].Namespace
Started == \A w \in Workers : pc[w] # "start" \/ mainPc = "panicked"

\* C11: measurement setup rejects the configuration when no measurement is
\* configured, when some measurement has an empty fields set, or when two
\* measurements share a namespace; otherwise it accepts and registers one
\* spec per namespace.
C11_SetupRejects ==
    Started =>
        IF NoMeasurement \/ EmptyFields \/ SharedNamespace
        THEN mainPc = "panicked" /\ setupMeasurements(cfg).err # ""
        ELSE /\ mainPc # "panicked"
             /\ setupMeasurements(cfg).err = ""
             /\ DOMAIN Measures(cfg) =
                    {cfg.Measurement[i].Namespace : i \in 1..Len(cfg.Measurement)}

-----------------------------------------------------------------------------
(* One worker whose flush threshold is above two points: a batch of two    *)
(* points is flushed by the tick or by the shutdown, not by the add.       *)

TickOps ==
    {Op("i", nsCity, MkTs(1, 0), GoodDoc),
     Op("i", nsCity, MkTs(2, 0), GoodDoc),
     Op("i", nsTown, MkTs(2, 0), GoodDoc)}

InitTick ==
    \E resume \in BOOLEAN, log \in Oplogs(TickOps, MaxOps) :
        /\ cfg = [Config(1, resume, FALSE, FALSE) EXCEPT
                     !.ChannelSize = MaxOps, !.InfluxBufferSize = BufferSize + 1]
        /\ source = [ops |-> TickOps, n |-> Len(log)]
        /\ opC = log
        /\ errC = 0
        /\ stopC = 0
        /\ shutdownC = 1
        /\ wg = 1
        /\ exitStatus = 0
        /\ mainPc = "shutdown"
        /\ sent = 1
        /\ stoppers = {}
        /\ pc = [w \in {1} |-> "select"]
        /\ ctx = [w \in {1} |-> NewCtx]
        /\ store = NoDoc
        /\ sink = [w \in {1} |-> <<>>]
        /\ saves = [w \in {1} |-> <<>>]
        /\ batched = [w \in {1} |-> {}]
        /\ errs = FALSE
        /\ produced = Len(log)
        /\ fails = 0
        /\ start = NoStart

TickSpec == InitTick /\ [][NextWorker]_vars

\* the points of namespace ns that log passed to client.Write, in order
RECURSIVE WrittenSeqs(_, _)
WrittenSeqs(log, ns) ==
    IF log = <<>> THEN <<>>
    ELSE WrittenSeqs(SubSeq(log, 1, Len(log) - 1), ns)
         \o (IF Last(log).ns = ns THEN Last(log).seqs ELSE <<>>)
Increasing(q) == \A i, j \in 1..Len(q) : i < j => q[i] < q[j]
\* the op a worker batched as point seq
OpOf(w, seq) == CHOOSE o \in batched[w] : o.seq = seq
\* worker w holds exactly two points, of one namespace, with timestamps T1 < T2
HoldsTwo(w) ==
    /\ Cardinality(DOMAIN ctx[w].m) = 1
    /\ \A ns \in DOMAIN ctx[w].m :
        /\ Len(ctx[w].m[ns].points) = 2
        /\ TsLess(ctx[w].m[ns].points[1].ts, ctx[w].m[ns].points[2].ts)
\* worker w takes a flush tick and the flush succeeds
TickSucceeds(w) ==
    /\ pc[w] = "select" /\ pc'[w] = "select"
    /\ opC' = opC /\ errC' = errC /\ shutdownC' = shutdownC
    /\ ctx'[w].m = EmptyMap
    /\ fails' = fails

\* C12: for one worker, the points of one namespace are written to the sink
\* in the order the worker received their ops; and when two ops of one
\* namespace with timestamps T1 < T2 were added and the next tick flush
\* succeeds with resume enabled, both points are written in arrival order in
\* one batch and the persisted checkpoint equals T2.
C12_ArrivalOrder ==
    /\ [](\A w \in Workers : \A ns \in {nsCity, nsTown} :
            Increasing(WrittenSeqs(sink[w], ns)))
    /\ [][\A w \in Workers :
            (HoldsTwo(w) /\ TickSucceeds(w) /\ cfg.Resume) =>
                \A ns \in DOMAIN ctx[w].m :
                    /\ Len(sink'[w]) = Len(sink[w]) + 1
                    /\ Last(sink'[w]).ok
                    /\ Last(sink'[w]).seqs =
                          <<ctx[w].m[ns].points[1].seq, ctx[w].m[ns].points[2].seq>>
                    /\ store' = ctx[w].m[ns].points[2].ts]_vars

C12_Witness ==
    \E w \in Workers :
        /\ cfg.Resume
        /\ pc[w] = "select"
        /\ shutdownC = 1
        /\ Len(sink[w]) = 1
        /\ sink[w][1].ok
        /\ Len(sink[w][1].seqs) = 2
        /\ TsLess(OpOf(w, sink[w][1].seqs[1]).Timestamp, OpOf(w, sink[w][1].seqs[2]).Timestamp)
        /\ store = OpOf(w, sink[w][1].seqs[2]).Timestamp

\* the client.Write calls worker w makes in this step
NewWrites(w) == SubSeq(sink'[w], Len(sink[w]) + 1, Len(sink'[w]))
\* worker w runs writeBatch in this step: on a tick, on shutdown, or in
\* addPoint when the batch of the op holds InfluxBufferSize - 1 points
Flushes(w) ==
    \/ pc[w] = "select" /\ opC' = opC /\ errC' = errC
    \/ /\ pc[w] = "select" /\ opC' # opC
       /\ batched'[w] # batched[w]
       /\ Head(opC).Namespace \in DOMAIN ctx[w].m
       /\ Len(ctx[w].m[Head(opC).Namespace].points) + 1 >= cfg.InfluxBufferSize
\* the open batches when that writeBatch starts
OpenBatches(w) ==
    DOMAIN ctx[w].m \cup (IF opC' # opC THEN {Head(opC).Namespace} ELSE {})

\* C13: every flush has one of two outcomes: all open batches are written
\* successfully and only then is the checkpoint saved, or a write fails after
\* a prefix of the batches was written and the flush does not write the
\* checkpoint store.
C13_FlushOutcomes ==
    [][\A w \in Workers : Flushes(w) =>
          LET new == NewWrites(w)
          IN  \/ /\ \A i \in 1..Len(new) : new[i].ok
                 /\ {new[i].ns : i \in 1..Len(new)} = OpenBatches(w)
                 /\ Len(new) = Cardinality(OpenBatches(w))
              \/ /\ new # <<>>
                 /\ ~Last(new).ok
                 /\ \A i \in 1..(Len(new) - 1) : new[i].ok
                 /\ \A i, j \in 1..Len(new) : i # j => new[i].ns # new[j].ns
                 /\ {new[i].ns : i \in 1..Len(new)} \subseteq OpenBatches(w)
                 /\ saves'[w] = saves[w]
                 /\ store' = store]_vars

C13_Witness ==
    \E w \in Workers :
        /\ cfg.Resume
        /\ Len(sink[w]) = 2
        /\ sink[w][1].ok /\ sink[w][1].seqs = <<2>>
        /\ ~sink[w][2].ok /\ sink[w][2].seqs = <<1>>
        /\ saves[w] = <<>>
        /\ store = NoDoc

\* C14: the sink client and the upstream session are closed, and the process
\* exits, only after every launched worker has returned from its final
\* flush: no worker is running when main has passed wg.Wait.
C14_CloseAfterWorkers ==
    mainPc \in {"closing", "exited"} => \A w \in Workers : pc[w] = "done"

\* the database of namespace ns
DatabaseOf(ns) == GetDatabase([Namespace |-> ns])

\* C15: when auto-create is enabled, a worker writes no points to the sink
\* for a database unless a CREATE DATABASE for it has succeeded in that
\* worker before.
C15_CreatedBeforeWritten ==
    cfg.InfluxAutoCreateDB =>
        \A w \in Workers : \A i \in 1..Len(sink[w]) :
            sink[w][i].seqs # <<>> => DatabaseOf(sink[w][i].ns) \in ctx[w].dbs

\* C16: the tracked timestamp of a worker changes on an add only when the
\* timestamp of the op is strictly greater: between two clears lastTs never
\* decreases.
C16_LastTsMonotonic ==
    [][\A w \in Workers :
          (ctx[w].lastTs # Ts0 /\ ctx'[w].lastTs # Ts0) =>
              TsLeq(ctx[w].lastTs, ctx'[w].lastTs)]_vars

-----------------------------------------------------------------------------
(* NClients workers at their select with resume enabled, the ops of the    *)
(* run delivered and the shutdown signals sent; no write and no save fails *)
(* (the failures of the run are used up).                                  *)

RaceOps ==
    {Op("i", nsCity, MkTs(1, 0), GoodDoc),
     Op("i", nsCity, MkTs(2, 0), GoodDoc)}

InitRace ==
    \E log \in Oplogs(RaceOps, MaxPipelineOps) :
        /\ cfg = [Config(NClients, TRUE, FALSE, FALSE) EXCEPT
                     !.ChannelSize = MaxPipelineOps]
        /\ source = [ops |-> RaceOps, n |-> Len(log)]
        /\ opC = log
        /\ errC = 0
        /\ stopC = 0
        /\ shutdownC = NClients
        /\ wg = NClients
        /\ exitStatus = 0
        /\ mainPc = "shutdown"
        /\ sent = NClients
        /\ stoppers = {}
        /\ pc = [w \in 1..NClients |-> "select"]
        /\ ctx = [w \in 1..NClients |-> NewCtx]
        /\ store = NoDoc
        /\ sink = [w \in 1..NClients |-> <<>>]
        /\ saves = [w \in 1..NClients |-> <<>>]
        /\ batched = [w \in 1..NClients |-> {}]
        /\ errs = FALSE
        /\ produced = Len(log)
        /\ fails = MaxFails
        /\ start = NoStart

\* the steps of the workers and of main when no write and no save fails
NextRace ==
    \/ MainWait
    \/ MainExit
    \/ \E w \in Workers : RecvShutdown(w)
    \/ \E w \in Workers : Tick(w)
    \/ \E w \in Workers : RecvOp(w)

RaceSpec == InitRace /\ [][NextRace]_vars

\* C17: with two or more workers and resume enabled the persisted checkpoint
\* is not monotonic: every successful save of a worker replaces the persisted
\* timestamp by the timestamp that worker tracked, also when another worker
\* has saved a higher one before.
C17_LastSaveWins ==
    [][\A w \in Workers :
          (Len(saves'[w]) > Len(saves[w]) /\ Last(saves'[w]).ok) =>
              store' = Last(saves'[w]).ts]_vars

\* a worker has overwritten the higher timestamp another worker saved
C17_Witness ==
    \E w, v \in Workers :
        /\ w # v
        /\ Len(saves[w]) = 1 /\ saves[w][1].ok
        /\ Len(saves[v]) = 1 /\ saves[v][1].ok
        /\ \A u \in Workers \ {w, v} : saves[u] = <<>>
        /\ TsLess(saves[v][1].ts, saves[w][1].ts)
        /\ store = saves[v][1].ts

\* C18: given no sink errors, every op delivered to OpC before the stop is
\* projected and written to the sink before the process exits: at exit no
\* delivered op is left in the channel and every batched point is written.
C18_ShutdownDrains ==
    (mainPc = "exited" /\ fails = 0) =>
        /\ opC = <<>>
        /\ \A w \in Workers : \A o \in batched[w] : WrittenOk(sink[w], o.seq)

\* C19: after any addPoint call returns, no open batch of the worker holds
\* InfluxBufferSize points or more: an add that makes a batch reach the
\* threshold flushes at once, and the flush empties the batch map.
C19_BelowThreshold ==
    /\ [](\A w \in Workers : \A ns \in DOMAIN ctx[w].m :
            Len(ctx[w].m[ns].points) < cfg.InfluxBufferSize)
    /\ [][\A w \in Workers :
            (/\ batched'[w] # batched[w]
             /\ Head(opC).Namespace \in DOMAIN ctx[w].m
             /\ Len(ctx[w].m[Head(opC).Namespace].points) + 1 >= cfg.InfluxBufferSize)
                => ctx'[w].m = EmptyMap /\ Len(sink'[w]) > Len(sink[w])]_vars

C19_Witness ==
    \E w \in Workers :
        /\ ctx[w].m = EmptyMap
        /\ pc[w] = "select"
        /\ \E i \in 1..Len(sink[w]) : Len(sink[w][i].seqs) = cfg.InfluxBufferSize

-----------------------------------------------------------------------------
(* One op through addPoint under every choice of the time field: none, the *)
(* key at, the key _id; the document carries values of every type.         *)

TimeDoc(id, at) ==
    MapOf({<<"_id", id>>, <<"temp", Value("float64")>>}
          \cup {<<"at", at[i]>> : i \in 1..Len(at)})

TimeOps ==
    {Op("i", nsCity, ts, TimeDoc(id, at)) :
        ts \in {MkTs(1, 0), MkTs(2, 5)},
        id \in {Value("string"), Value("time")},
        at \in KeyValues}

InitTime ==
    \E timefield \in {"", "at", "_id"}, o \in TimeOps :
        /\ cfg = [Config(1, FALSE, FALSE, FALSE) EXCEPT
                     !.Measurement =
                         <<Setting(nsCity, timefield, <<>>, <<"region">>, <<"temp">>)>>]
        /\ source = [ops |-> {o}, n |-> 1]
        /\ opC = <<[seq |-> 1] @@ o>>
        /\ errC = 0
        /\ stopC = 0
        /\ shutdownC = 0
        /\ wg = 1
        /\ exitStatus = 0
        /\ mainPc = "waitStop"
        /\ sent = 0
        /\ stoppers = {"signal"}
        /\ pc = [w \in {1} |-> "select"]
        /\ ctx = [w \in {1} |-> NewCtx]
        /\ store = NoDoc
        /\ sink = [w \in {1} |-> <<>>]
        /\ saves = [w \in {1} |-> <<>>]
        /\ batched = [w \in {1} |-> {}]
        /\ errs = FALSE
        /\ produced = 1
        /\ fails = 0
        /\ start = NoStart

TimeSpec == InitTime /\ [][NextAdd]_vars

\* the one point in the open batches has time t
PointAt(t) ==
    \A w \in Workers :
        /\ pc[w] = "select"
        /\ Cardinality(Open(ctx[w])) = 1
        /\ \A p \in Open(ctx[w]) : p.pt.time = t
\* addPoint failed with the missing-time-field error and added no point
TimeMissing ==
    /\ NoPoint
    /\ \A w \in Workers : pc[w] = "sendErr"
    /\ project(TheMeasure, TheOp).err = "time field not found"

\* C20: when a time field is configured, the time of the point is the value
\* of that top-level field if it is a wall-clock time (in UTC), or
\* TimestampTime of it if it is a replication timestamp; if the field is
\* absent or of another type addPoint fails with the missing-time-field
\* error and adds no point.  When no time field is configured, the time is
\* TimestampTime(op.Timestamp): the seconds of the timestamp, in UTC.
C20_PointTime ==
    Handled =>
        LET tf == TheMeasure.timefield
            d == TheOp.Data
        IN  IF tf = "" THEN PointAt([unix |-> TheOp.Timestamp.sec, loc |-> "UTC"])
            ELSE IF tf \in DOMAIN d /\ d[tf].t = "time"
                 THEN PointAt([unix |-> d[tf].v.unix, loc |-> "UTC"])
            ELSE IF tf \in DOMAIN d /\ d[tf].t = "timestamp"
                 THEN PointAt([unix |-> d[tf].v.sec, loc |-> "UTC"])
            ELSE TimeMissing

\* the same, for the time fields other than _id
C20_ExceptId ==
    TheMeasure.timefield # "_id" => C20_PointTime

-----------------------------------------------------------------------------
(* One op through addPoint with and without a measurement override and a   *)
(* time field; the timestamp of the op may be 0 (gtm gives the ops of a    *)
(* direct read no timestamp), and so may a timestamp held by the document. *)

sTemps == <<"t", "e", "m", "p", "s">>

PointDoc(temp, at) ==
    MapOf({<<"_id", Value("string")>>}
          \cup {<<"temp", temp[i]>> : i \in 1..Len(temp)}
          \cup {<<"at", at[i]>> : i \in 1..Len(at)})

PointOps ==
    {Op("i", nsCity, ts, PointDoc(temp, at)) :
        ts \in {Ts0, MkTs(1, 0)},
        temp \in {<<>>, <<Value("float64")>>, <<Value("array")>>},
        at \in {<<>>, <<Value("time")>>, <<Value("timestamp")>>, <<Val("timestamp", Ts0)>>}}

InitPoint ==
    \E timefield \in {"", "at"}, measure \in {<<>>, sTemps}, o \in PointOps :
        /\ cfg = [Config(1, FALSE, FALSE, FALSE) EXCEPT
                     !.Measurement =
                         <<Setting(nsCity, timefield, measure, <<"region">>, <<"temp">>)>>]
        /\ source = [ops |-> {o}, n |-> 1]
        /\ opC = <<[seq |-> 1] @@ o>>
        /\ errC = 0
        /\ stopC = 0
        /\ shutdownC = 0
        /\ wg = 1
        /\ exitStatus = 0
        /\ mainPc = "waitStop"
        /\ sent = 0
        /\ stoppers = {"signal"}
        /\ pc = [w \in {1} |-> "select"]
        /\ ctx = [w \in {1} |-> NewCtx]
        /\ store = NoDoc
        /\ sink = [w \in {1} |-> <<>>]
        /\ saves = [w \in {1} |-> <<>>]
        /\ batched = [w \in {1} |-> {}]
        /\ errs = FALSE
        /\ produced = 1
        /\ fails = 0
        /\ start = NoStart

PointSpec == InitPoint /\ [][NextAdd]_vars

\* the points in the open batches of the workers, for the ops that pass the
\* filter chain
Entered ==
    IF filter(cfg, TheOp) THEN UNION {Open(ctx[w]) : w \in Workers} ELSE {}
\* the measurement name a point of the op must carry
NameWanted ==
    IF cfg.Measurement[1].Measure # <<>> THEN cfg.Measurement[1].Measure ELSE sCity

\* C21: every point that enters a worker's batch has at least one field, a
\* time that is not 0, and a measurement name equal to the override of the
\* measurement when there is one and to the collection of the op otherwise;
\* this for every op that passes the filter chain, the ops whose timestamp
\* is 0 included.
C21_PointWellFormed ==
    \A p \in Entered :
        /\ DOMAIN p.pt.fields # {}
        /\ p.pt.time.unix # 0
        /\ p.pt.name = NameWanted

\* the same without the time, and the time for the ops whose timestamp, or
\* whose time field when one is configured, is not 0
C21_ExceptZeroTimestamp ==
    \A p \in Entered :
        /\ DOMAIN p.pt.fields # {}
        /\ p.pt.name = NameWanted
        /\ (IF TheMeasure.timefield = "" THEN TheOp.Timestamp.sec # 0
            ELSE TheOp.Data.at.t = "time" \/ TheOp.Data.at.v.sec # 0)
               => p.pt.time.unix # 0

\* a point of an op with timestamp 0 is in a batch
C21_ZeroEntered ==
    /\ TheOp.Timestamp = Ts0
    /\ TheMeasure.timefield = ""
    /\ Entered # {}

-----------------------------------------------------------------------------
(* One op through addPoint with nested documents: the tag and field lists  *)
(* name top-level keys, dotted keys of nested documents, _id and keys      *)
(* under _id; the document mixes leaves of supported and unsupported types *)
(* and every value carries a payload of its own.                           *)

FlatTags == {<<"region">>, <<"_id", "region", "loc.name">>, <<"temp", "loc.lat">>}
FlatFields ==
    {<<"temp">>,
     <<"_id", "_id.x", "region", "temp", "loc.name", "loc.lat", "loc.geo.x", "loc.bad">>}

FlatDoc(id, region, loc) ==
    MapOf({<<"_id", id>>, <<"temp", Val("float64", 2)>>}
          \cup {<<"region", region[i]>> : i \in 1..Len(region)}
          \cup {<<"loc", loc[i]>> : i \in 1..Len(loc)})

FlatOps ==
    {Op("i", nsCity, MkTs(1, 0), FlatDoc(id, region, loc)) :
        id \in {Val("string", 1), Val("map", [x |-> Val("string", 9)])},
        region \in {<<>>, <<Val("string", 3)>>, <<Val("int64", 3)>>},
        loc \in {<<>>,
                 <<Val("map", [name |-> Val("string", 4),
                               lat |-> Val("float64", 5),
                               bad |-> Val("array", 6),
                               geo |-> Val("map", [x |-> Val("int64", 7)])])>>,
                 <<Val("map", [name |-> Val("int64", 4),
                               lat |-> Val("string", 5)])>>}}

InitFlat ==
    \E tags \in FlatTags, fields \in FlatFields, o \in FlatOps :
        /\ cfg = [Config(1, FALSE, FALSE, FALSE) EXCEPT
                     !.Measurement = <<Setting(nsCity, "", <<>>, tags, fields)>>]
        /\ source = [ops |-> {o}, n |-> 1]
        /\ opC = <<[seq |-> 1] @@ o>>
        /\ errC = 0
        /\ stopC = 0
        /\ shutdownC = 0
        /\ wg = 1
        /\ exitStatus = 0
        /\ mainPc = "waitStop"
        /\ sent = 0
        /\ stoppers = {"signal"}
        /\ pc = [w \in {1} |-> "select"]
        /\ ctx = [w \in {1} |-> NewCtx]
        /\ store = NoDoc
        /\ sink = [w \in {1} |-> <<>>]
        /\ saves = [w \in {1} |-> <<>>]
        /\ batched = [w \in {1} |-> {}]
        /\ errs = FALSE
        /\ produced = 1
        /\ fails = 0
        /\ start = NoStart

FlatSpec == InitFlat /\ [][NextAdd]_vars

\* the <<dotted key, value>> pairs of document m: a top-level key with its
\* value, and for a nested document the keys of its leaves behind the key
\* of the document and a dot
RECURSIVE Dotted(_)
Dotted(m) ==
    UNION {
        IF m[k].t = "map"
        THEN {<<k \o "." \o p[1], p[2]>> : p \in Dotted(m[k].v)}
        ELSE {<<k, m[k]>>}
        : k \in DOMAIN m}
\* the dotted keys that come from the top-level key _id
UnderId(m) == Dotted([k \in DOMAIN m \cap {"_id"} |-> m[k]])
TagSet == Range(cfg.Measurement[1].Tags)
FieldSet == Range(cfg.Measurement[1].Fields)

\* C22: a key, top-level or the dotted key of a leaf of a nested document,
\* is in the tags of the point only if it is in the tag list and its value
\* is a string, and in the fields of the point only if it is in the field
\* list, not in the tag list, and its value is a string, an int64, a float64
\* or a bool; the point carries the value the document has at the key, and
\* the top-level key _id contributes nothing, even when it is listed.
C22_OnlyListedKeys ==
    \A w \in Workers : \A p \in Open(ctx[w]) :
        /\ \A k \in DOMAIN p.pt.tags :
              /\ k \in TagSet
              /\ p.pt.tags[k].t = "string"
              /\ <<k, p.pt.tags[k]>> \in Dotted(TheOp.Data) \ UnderId(TheOp.Data)
        /\ \A k \in DOMAIN p.pt.fields :
              /\ k \in FieldSet
              /\ k \notin TagSet
              /\ p.pt.fields[k].t \in {"string", "int64", "float64", "bool"}
              /\ <<k, p.pt.fields[k]>> \in Dotted(TheOp.Data) \ UnderId(TheOp.Data)

\* a point built from top-level keys and nested leaves, with _id and a key
\* under _id listed and present, a leaf of an unsupported type, and a key
\* in both lists
C22_Witness ==
    /\ {"_id", "region"} \subseteq TagSet
    /\ {"_id.x", "region", "loc.bad"} \subseteq FieldSet
    /\ {"_id.x", "loc.bad"} \subseteq {q[1] : q \in Dotted(TheOp.Data)}
    /\ \E w \in Workers : \E p \in Open(ctx[w]) :
          /\ DOMAIN p.pt.tags = {"region", "loc.name"}
          /\ DOMAIN p.pt.fields = {"temp", "loc.lat", "loc.geo.x"}

-----------------------------------------------------------------------------
(* Two ops through addPoint of one worker: the first is projected to a     *)
(* point, the second, on the same or on another namespace, may lack the    *)
(* time field or every field.                                              *)

DropDoc(temp, at) ==
    MapOf({<<"_id", Value("string")>>}
          \cup {<<"temp", temp[i]>> : i \in 1..Len(temp)}
          \cup {<<"at", at[i]>> : i \in 1..Len(at)})

DropFirst == Op("i", nsCity, MkTs(1, 0), DropDoc(<<Value("float64")>>, <<Value("time")>>))
DropSecond ==
    {Op("i", ns, MkTs(2, 0), DropDoc(temp, at)) :
        ns \in {nsCity, nsTown},
        temp \in {<<>>, <<Value("float64")>>, <<Value("array")>>},
        at \in {<<>>, <<Value("time")>>, <<Value("string")>>}}

InitDrop ==
    \E timefield \in {"", "at"}, resume \in BOOLEAN, autoCreate \in BOOLEAN,
       o \in DropSecond :
        /\ cfg = [Config(1, resume, autoCreate, FALSE) EXCEPT
                     !.InfluxBufferSize = BufferSize + 1,
                     !.ChannelSize = 2,
                     !.Measurement =
                         <<Setting(nsCity, timefield, <<>>, <<"region">>, <<"temp">>),
                           Setting(nsTown, timefield, <<>>, <<"region">>, <<"temp">>)>>]
        /\ source = [ops |-> {DropFirst, o}, n |-> 2]
        /\ opC = <<[seq |-> 1] @@ DropFirst, [seq |-> 2] @@ o>>
        /\ errC = 0
        /\ stopC = 0
        /\ shutdownC = 0
        /\ wg = 1
        /\ exitStatus = 0
        /\ mainPc = "waitStop"
        /\ sent = 0
        /\ stoppers = {"signal"}
        /\ pc = [w \in {1} |-> "select"]
        /\ ctx = [w \in {1} |-> NewCtx]
        /\ store = NoDoc
        /\ sink = [w \in {1} |-> <<>>]
        /\ saves = [w \in {1} |-> <<>>]
        /\ batched = [w \in {1} |-> {}]
        /\ errs = FALSE
        /\ produced = 2
        /\ fails = 0
        /\ start = NoStart

DropSpec == InitDrop /\ [][NextAdd]_vars

\* worker w takes an op of a measured namespace in this step and addPoint
\* returns a projection error for it: the time field is missing or the
\* point is refused for having no fields (CREATE DATABASE did not fail)
ProjectionError(w) ==
    /\ pc[w] = "select"
    /\ opC # <<>>
    /\ opC' = Tail(opC)
    /\ pc'[w] = "sendErr"
    /\ fails' = fails
    /\ Head(opC).Namespace \in DOMAIN Measures(cfg)
    /\ project(Measures(cfg)[Head(opC).Namespace], Head(opC)).err
           \in {"time field not found", "NewPoint"}
\* the points of batch ns of c, none when there is no such batch
PointsOf(c, ns) == IF ns \in DOMAIN c.m THEN c.m[ns].points ELSE <<>>

\* C23: when addPoint returns a projection error for an op (the time field
\* is missing, or the point is refused for having no fields), no point is
\* appended to any batch of the worker, the points already batched are
\* unchanged, and lastTs of the worker is unchanged.
C23_ProjectionErrorFrame ==
    [][\A w \in Workers : ProjectionError(w) =>
          /\ \A ns \in DOMAIN ctx[w].m \cup DOMAIN ctx'[w].m :
                PointsOf(ctx'[w], ns) = PointsOf(ctx[w], ns)
          /\ ctx'[w].lastTs = ctx[w].lastTs
          /\ batched'[w] = batched[w]
          /\ sink'[w] = sink[w]]_vars

\* after a point was batched, an op on another namespace failed for its
\* missing time field: the batched point and lastTs are as they were
C23_Witness ==
    \E w \in Workers :
        /\ pc[w] = "sendErr"
        /\ opC = <<>>
        /\ fails = 0
        /\ errs
        /\ \E o \in source.ops :
              /\ o.Namespace = nsTown
              /\ project(Measures(cfg)[nsTown], o).err = "time field not found"
        /\ Len(PointsOf(ctx[w], nsCity)) = 1
        /\ PointsOf(ctx[w], nsCity)[1].seq = 1
        /\ ctx[w].lastTs = MkTs(1, 0)

\* C24: after a flush in which every client.Write succeeds (whether or not
\* the checkpoint save that follows succeeds), the batch map of the worker
\* is empty: the worker holds no open batch.
C24_NoOpenBatchAfterFlush ==
    [][\A w \in Workers :
          (Flushes(w) /\ \A i \in 1..Len(NewWrites(w)) : NewWrites(w)[i].ok)
              => DOMAIN ctx'[w].m = {}]_vars

\* a flush wrote a batch, the checkpoint save after it failed, and the
\* worker holds no batch
C24_Witness ==
    \E w \in Workers :
        /\ pc[w] = "sendErr"
        /\ Len(sink[w]) = 1
        /\ sink[w][1].ok
        /\ sink[w][1].seqs # <<>>
        /\ saves[w] # <<>>
        /\ ~saves[w][1].ok
        /\ DOMAIN ctx[w].m = {}

=============================================================================
